---- MODULE Spec2Model ----
(***************************************************************************)
(* gitload: the URL resolver (github-parser.js), the remote content client *)
(* (GitHubClient), the materializer (downloadFiles, downloadToZip) and the *)
(* command line program that runs them in turn (index.js, main).           *)
(*                                                                         *)
(* Strings are sequences of symbols.  A symbol stands for a run of         *)
(* characters that the code never looks inside: "/" is the path separator, *)
(* " " is white space, ".git", "tree", "blob" are those literal runs and   *)
(* the remaining symbols are ordinary name characters.  The empty string   *)
(* is <<>> and JavaScript's null is NULL.                                  *)
(***************************************************************************)
EXTENDS Integers, Sequences, FiniteSets, TLC

VARIABLES
    pc,              \* position of the run
    options,         \* the command line: [token, gh, zip, output]
    env,             \* the environment: [GITHUB_TOKEN, ghToken]
    token,           \* main: token
    exitCode,        \* the code the process ended with, -1 while it runs
    url,             \* the raw URL string handed to parseGitHubUrl
    given,           \* how url was put together: [scheme, host, segs, pad]
    parsed,          \* the ParsedGitHubUrl (all fields NULL before/without one)
    error,           \* message of the error thrown, "none" if none
    tree,            \* the remote's recursive listing (data.tree)
    item,            \* number of listing entries examined by getTreeContents
    files,           \* GitHubFile[]: discovery's result, the materializer's input
    progress,        \* values passed to onProgress, in order
    calls,           \* remote calls issued, in order
    enrichment,      \* answer to the contents call: "none", "ok", "failed"
    mode,            \* "dir" (downloadFiles) or "zip" (downloadToZip)
    outputDir,       \* outputDir / zipPath
    outputIsFilePath,\* options.outputIsFilePath
    started,         \* number of files whose iteration has begun
    idx,             \* number of files the download loop has gone through
    outcomes,        \* what happened to each attempted file, in order
    errors,          \* the errors array
    current,         \* updateProgress: current
    downloadedBytes, \* updateProgress: downloadedBytes
    shown,           \* updateProgress: file names displayed, in order
    written,         \* files on disk: [path, content]
    created,         \* directories made by mkdir, and the archive file
    stream,          \* the output stream: "none", "open", "errored", "closed"
    listening,       \* the 'close' and 'error' listeners are registered
    archive,         \* entries appended to the archive: [name, content]
    finalized,       \* number of archive.finalize() calls
    zipFile,         \* entries of the closed archive file, NULL until closed
    successCount     \* the count printed in the summary, -1 before

vars == <<pc, options, env, token, exitCode, url, given, parsed, error, tree,
          item, files, progress, calls, enrichment, mode, outputDir,
          outputIsFilePath, started, idx, outcomes, errors, current,
          downloadedBytes, shown, written, created, stream, listening, archive,
          finalized, zipFile, successCount>>

runVars == <<options, env, token, exitCode>>
resolveVars == <<url, given, parsed, error>>
discoverVars == <<tree, item, files, progress, calls, enrichment>>
loadVars == <<mode, outputDir, outputIsFilePath, started, idx, outcomes, errors,
              current, downloadedBytes, shown, written, created, stream,
              listening, archive, finalized, zipFile, successCount>>

---------------------------------------------------------------------------
(* Bounds *)
MaxSegs == 6        \* path segments of a generated URL
MaxPadSegs == 4     \* path segments of a URL generated with padding / odd hosts
MaxTree == 4        \* entries of a remote listing
MaxFiles == 3       \* files handed to the materializer
MaxBytes == 1       \* length of a downloaded content

---------------------------------------------------------------------------
(* Strings *)

NULL == <<"<null>">>
SLASH == "/"
SPACE == " "

\* JavaScript truthiness of a string-or-null value
Truthy(s) == s # NULL /\ s # <<>>

\* String.prototype.startsWith
StartsWith(s, p) == Len(p) <= Len(s) /\ SubSeq(s, 1, Len(p)) = p

\* String.prototype.includes
Includes(s, p) == \E k \in 0..(Len(s) - Len(p)) : SubSeq(s, k + 1, k + Len(p)) = p

\* String.prototype.slice(n)
Slice(s, n) == SubSeq(s, n + 1, Len(s))

\* String.prototype.trim
RECURSIVE TrimStart(_)
TrimStart(s) == IF s # <<>> /\ Head(s) = SPACE THEN TrimStart(Tail(s)) ELSE s

RECURSIVE TrimEnd(_)
TrimEnd(s) ==
    IF s # <<>> /\ s[Len(s)] = SPACE THEN TrimEnd(SubSeq(s, 1, Len(s) - 1)) ELSE s

Trim(s) == TrimEnd(TrimStart(s))

\* url.replace(/\/+$/, '')
RECURSIVE StripTrailingSlashes(_)
StripTrailingSlashes(s) ==
    IF s # <<>> /\ s[Len(s)] = SLASH
    THEN StripTrailingSlashes(SubSeq(s, 1, Len(s) - 1))
    ELSE s

\* String.prototype.split('/')
RECURSIVE Split(_)
Split(s) ==
    IF \A k \in 1..Len(s) : s[k] # SLASH
    THEN <<s>>
    ELSE LET k == CHOOSE j \in 1..Len(s) :
                      s[j] = SLASH /\ \A h \in 1..(j - 1) : s[h] # SLASH
         IN  <<SubSeq(s, 1, k - 1)>> \o Split(SubSeq(s, k + 1, Len(s)))

\* Array.prototype.filter(Boolean) on an array of strings
FilterBoolean(parts) == SelectSeq(parts, LAMBDA p : p # <<>>)

\* Array.prototype.join('/'); the empty array joins to the empty string
RECURSIVE Join(_)
Join(parts) ==
    IF parts = <<>> THEN <<>>
    ELSE IF Len(parts) = 1 THEN parts[1]
    ELSE parts[1] \o <<SLASH>> \o Join(Tail(parts))

\* repo.replace(/\.git$/, '')
StripGit(s) ==
    IF s # <<>> /\ s[Len(s)] = ".git" THEN SubSeq(s, 1, Len(s) - 1) ELSE s

\* new URL(url): hostname and pathname of an absolute URL, or a failure.  The
\* parser drops white space around its input, takes the host up to the first
\* "/" (white space in it is a failure) and escapes white space in the path.
\* The inputs have no port, user info, query, fragment or dot segment, so the
\* pathname is the text from that "/" on, and "/" when there is none.
EscapeInPath(c) == IF c = SPACE THEN "%20" ELSE c

ParseURL(s) ==
    LET input == Trim(s)
    IN  IF input = <<>> \/ Head(input) # "https://"
        THEN [ok |-> FALSE, hostname |-> <<>>, pathname |-> <<>>]
        ELSE LET rest == Tail(input)
                 cut  == IF \E k \in 1..Len(rest) : rest[k] = SLASH
                         THEN CHOOSE j \in 1..Len(rest) :
                                  rest[j] = SLASH /\ \A h \in 1..(j - 1) : rest[h] # SLASH
                         ELSE Len(rest) + 1
                 host == SubSeq(rest, 1, cut - 1)
             IN  IF host = <<>> \/ \E k \in 1..Len(host) : host[k] = SPACE
                 THEN [ok |-> FALSE, hostname |-> <<>>, pathname |-> <<>>]
                 ELSE [ok |-> TRUE, hostname |-> host,
                       pathname |-> IF cut > Len(rest) THEN <<SLASH>>
                                    ELSE [k \in 1..(Len(rest) - cut + 1) |->
                                              EscapeInPath(rest[cut + k - 1])]]

---------------------------------------------------------------------------
(* github-parser.js *)

NoAddress == [owner |-> NULL, repo |-> NULL, ref |-> NULL, path |-> NULL, type |-> "none"]

Thrown(msg) == [error |-> msg, value |-> NoAddress]
Returned(a) == [error |-> "none", value |-> a]

\* the hostname test of parseGitHubUrl
IsGitHubHost(hostname) == Includes(hostname, <<"github.com">>)

\* the test on pathParts[2]
\* (faulty variant: any third segment passes)
IsMarkerAny(pathType) == TRUE
IsMarker(pathType) == pathType = <<"tree">> \/ pathType = <<"blob">>

\* pathParts.slice(4).join('/') || null
\* (faulty variant: only the first segment of the path is kept)
PathOfPartsFirst(pathParts) ==
    IF Len(pathParts) >= 5 THEN pathParts[5] ELSE NULL
PathOfParts(pathParts) ==
    LET joined == Join(SubSeq(pathParts, 5, Len(pathParts)))
    IN  IF Truthy(joined) THEN joined ELSE NULL

TypeOfMarker(pathType) == IF pathType = <<"tree">> THEN "tree" ELSE "blob"

parseGitHubUrl(raw) ==
    LET cleaned == StripTrailingSlashes(Trim(raw))
        urlObj  == ParseURL(cleaned)
    IN  IF ~urlObj.ok THEN Thrown("Invalid URL format")
        ELSE IF ~IsGitHubHost(urlObj.hostname)
        THEN Thrown("URL must be a GitHub URL (github.com)")
        ELSE LET pathParts == FilterBoolean(Split(urlObj.pathname))
             IN  IF Len(pathParts) < 2
                 THEN Thrown("URL must include owner and repository")
                 ELSE LET owner == pathParts[1]
                          repo  == StripGit(pathParts[2])
                      IN  IF Len(pathParts) = 2
                          THEN Returned([owner |-> owner, repo |-> repo, ref |-> NULL,
                                         path |-> NULL, type |-> "root"])
                          ELSE IF ~IsMarker(pathParts[3])
                          THEN Thrown("Unsupported URL format")
                          ELSE IF Len(pathParts) < 4
                          THEN Thrown("URL must include a branch/ref")
                          ELSE Returned([owner |-> owner, repo |-> repo,
                                         ref |-> pathParts[4],
                                         path |-> PathOfParts(pathParts),
                                         type |-> TypeOfMarker(pathParts[3])])

---------------------------------------------------------------------------
(* Inputs of the resolver *)

SeqsUpTo(S, n) == UNION {[1..k -> S] : k \in 0..n}

\* path segments a URL is generated from; <<>> gives an empty segment ("//",
\* or a trailing "/")
Segments == {<<"a">>, <<"a", ".git">>, <<".git">>, <<"tree">>, <<"blob">>, <<>>}

Hosts == {<<"github.com">>, <<"gitlab.com">>, <<"my", "github.com">>,
          <<"github.com", ".evil.io">>}

Pad(b) == IF b THEN <<SPACE>> ELSE <<>>

RawUrl(g) ==
    Pad(g.pad)
    \o (IF g.scheme THEN <<"https://">> ELSE <<>>)
    \o g.host
    \o (IF g.segs = <<>> THEN <<>> ELSE <<SLASH>> \o Join(g.segs))
    \o Pad(g.pad)

\* segments generated after the reference (the path within the repository)
TailSegments == {<<"a">>, <<"tree">>, <<>>}

\* a plain github.com URL of up to MaxSegs segments: four segments from
\* Segments, then segments from TailSegments
PlainGiven(g) ==
    \E hn \in 0..4 : \E h \in [1..hn -> Segments] :
    \E tn \in 0..(MaxSegs - 4) : \E t \in [1..tn -> TailSegments] :
        /\ tn > 0 => hn = 4
        /\ g = [scheme |-> TRUE, host |-> <<"github.com">>, segs |-> h \o t,
                pad |-> FALSE]

\* a URL of up to MaxPadSegs segments on any of Hosts, with or without a
\* scheme, with or without white space around it
PaddedGiven(g) ==
    \E sc \in BOOLEAN, h \in Hosts, p \in BOOLEAN :
    \E n \in 0..MaxPadSegs : \E s \in [1..n -> Segments] :
        g = [scheme |-> sc, host |-> h, segs |-> s, pad |-> p]

\* the command line and the environment of a run that sets no option
NoOptions == [token |-> NULL, gh |-> FALSE, zip |-> NULL, output |-> <<".">>]
NoEnv == [GITHUB_TOKEN |-> NULL, ghToken |-> NULL]

InitRunIdle ==
    /\ options = NoOptions /\ env = NoEnv /\ token = NULL /\ exitCode = -1

InitDiscoverIdle ==
    /\ tree = <<>> /\ item = 0 /\ files = <<>> /\ progress = <<>> /\ calls = <<>>
    /\ enrichment = "none"

\* the locals of downloadFiles / downloadToZip on entry
InitLoadLocals ==
    /\ started = 0 /\ idx = 0 /\ outcomes = <<>> /\ errors = <<>> /\ current = 0
    /\ downloadedBytes = 0 /\ shown = <<>> /\ written = <<>> /\ created = {}
    /\ stream = "none" /\ listening = FALSE /\ archive = <<>>
    /\ finalized = 0 /\ zipFile = NULL /\ successCount = -1

InitLoadIdle ==
    /\ mode = "dir" /\ outputDir = <<>> /\ outputIsFilePath = FALSE
    /\ InitLoadLocals

InitResolve ==
    /\ pc = "resolve"
    /\ InitRunIdle
    /\ (PlainGiven(given) \/ PaddedGiven(given))
    /\ url = RawUrl(given)
    /\ parsed = NoAddress
    /\ error = "none"
    /\ InitDiscoverIdle
    /\ InitLoadIdle

\* main: parsed = parseGitHubUrl(url), or the error it throws and exit(2)
Resolve ==
    /\ pc = "resolve"
    /\ LET r == parseGitHubUrl(url)
       IN  /\ parsed' = r.value
           /\ error' = r.error
           /\ pc' = IF r.error = "none" THEN "resolved" ELSE "invalid_url"
           /\ exitCode' = IF r.error = "none" THEN exitCode ELSE 2
    /\ UNCHANGED <<options, env, token, url, given, discoverVars, loadVars>>

NextResolve == Resolve

SpecResolve == InitResolve /\ [][NextResolve]_vars

---------------------------------------------------------------------------
(* github-parser.js: request targets *)

\* encodeURIComponent: name symbols are unreserved, "/" and " " are escaped
EncodeSymbol(c) == IF c = SLASH THEN "%2F" ELSE IF c = SPACE THEN "%20" ELSE c
EncodeURIComponent(s) == [k \in 1..Len(s) |-> EncodeSymbol(s[k])]

RefOrHead(a) == IF Truthy(a.ref) THEN a.ref ELSE <<"HEAD">>

buildRepoApiUrl(owner, repo) ==
    <<"https://api.github.com/repos/">> \o owner \o <<SLASH>> \o repo

buildContentsApiUrl(a) ==
    <<"https://api.github.com/repos/">> \o a.owner \o <<SLASH>> \o a.repo
    \o <<"/contents">>
    \o (IF Truthy(a.path) THEN <<SLASH>> \o a.path ELSE <<>>)
    \o (IF Truthy(a.ref) THEN <<"?ref=">> \o EncodeURIComponent(a.ref) ELSE <<>>)

buildTreeApiUrl(a) ==
    <<"https://api.github.com/repos/">> \o a.owner \o <<SLASH>> \o a.repo
    \o <<"/git/trees/">> \o RefOrHead(a) \o <<"?recursive=1">>

getRawUrl(a, filePath) ==
    <<"https://raw.githubusercontent.com/">> \o a.owner \o <<SLASH>> \o a.repo
    \o <<SLASH>> \o RefOrHead(a) \o <<SLASH>> \o filePath

---------------------------------------------------------------------------
(* GitHubClient: discovery *)

NoSize == -1       \* a size field the response does not carry

\* x || 0
OrZero(x) == IF x = NoSize THEN 0 ELSE x

\* x || ''
OrEmpty(x) == IF x = NULL THEN <<>> ELSE x

\* the name returned by the repository-metadata endpoint
DefaultBranch == <<"main">>

\* responses of the contents endpoint to the blob enrichment call
ContentsResponses ==
    {[ok |-> FALSE, size |-> NoSize, sha |-> NULL],
     [ok |-> TRUE, size |-> 7, sha |-> <<"sha-f">>],
     [ok |-> TRUE, size |-> NoSize, sha |-> NULL]}

\* GitHubClient: the Authorization header of a client built with tok
Authorization(tok) == IF Truthy(tok) THEN <<"Bearer", SPACE>> \o tok ELSE NULL

Call(api, target, tok) ==
    [api |-> api, url |-> target, auth |-> Authorization(tok)]

\* the GitHubFile built for a listing entry
FileOfItem(a, it) ==
    [path |-> it.path, downloadUrl |-> getRawUrl(a, it.path),
     size |-> OrZero(it.size), sha |-> it.sha]

\* getContents takes the single-file route
\* (faulty variant: a file address is listed like a folder)
SingleFileRouteNever(a) == FALSE
SingleFileRoute(a) == a.type = "blob" /\ Truthy(a.path)

\* getContents has a reference to work with: given, or just looked up
AtContents == pc = "contents" \/ (pc = "discover" /\ Truthy(parsed.ref))

\* getContents looks the default branch up: if (!parsed.ref)
\* (faulty variant: it is looked up whatever the address holds)
NeedsDefaultBranchAlways(a) == TRUE
NeedsDefaultBranch(a) == ~Truthy(a.ref)

\* getContents: if (!parsed.ref) parsed.ref = await getDefaultBranch(...)
GetDefaultBranch ==
    /\ pc = "discover"
    /\ NeedsDefaultBranch(parsed)
    /\ calls' = Append(calls, Call("repo", buildRepoApiUrl(parsed.owner, parsed.repo),
                                   token))
    /\ \E ok \in BOOLEAN :
          IF ok
          THEN /\ parsed' = [parsed EXCEPT !.ref = DefaultBranch]
               /\ pc' = "contents"
               /\ error' = error
          ELSE /\ parsed' = parsed
               /\ pc' = "discover_failed"
               /\ error' = "GitHub API error"
    /\ UNCHANGED <<runVars, url, given, tree, item, files, progress, enrichment,
                   loadVars>>

\* getContents, single file: catch { /* use defaults */ } around the call
\* (faulty variant: a failed call is thrown on)
AfterEnrichmentThrown(data) == IF data.ok THEN "discovered" ELSE "discover_failed"
AfterEnrichment(data) == "discovered"

\* getContents, single file: the descriptor, the best-effort contents call,
\* onProgress(1), return [file]
BlobContents ==
    /\ AtContents
    /\ SingleFileRoute(parsed)
    /\ calls' = Append(calls, Call("contents", buildContentsApiUrl(parsed), token))
    /\ \E data \in ContentsResponses :
          /\ files' = << [path |-> parsed.path,
                          downloadUrl |-> getRawUrl(parsed, parsed.path),
                          size |-> IF data.ok THEN OrZero(data.size) ELSE 0,
                          sha |-> IF data.ok THEN OrEmpty(data.sha) ELSE <<>>] >>
          /\ enrichment' = IF data.ok THEN "ok" ELSE "failed"
          /\ pc' = AfterEnrichment(data)
          /\ progress' = IF AfterEnrichment(data) = "discovered"
                         THEN Append(progress, 1) ELSE progress
    /\ UNCHANGED <<runVars, url, given, parsed, error, tree, item, loadVars>>

\* getTreeContents: the listing call and the check of data.tree
FetchTree ==
    /\ AtContents
    /\ ~SingleFileRoute(parsed)
    /\ calls' = Append(calls, Call("tree", buildTreeApiUrl(parsed), token))
    /\ \E resp \in {"ok", "no_tree", "failed"} :
          /\ pc' = IF resp = "ok" THEN "tree_loop" ELSE "discover_failed"
          /\ error' = CASE resp = "ok" -> error
                        [] resp = "no_tree" -> "Invalid response from GitHub API"
                        [] OTHER -> "GitHub API error"
    /\ item' = 0
    /\ files' = <<>>
    /\ UNCHANGED <<runVars, url, given, parsed, tree, progress, enrichment,
                   loadVars>>

\* the path filter of getTreeContents on one blob entry
ExactMatch(a, it) == Truthy(a.path) /\ it.path = a.path
\* (faulty variant of UnderPrefix: the "/" after the path is not required)
UnderPrefixNoSlash(a, it) == StartsWith(it.path, a.path)
UnderPrefix(a, it) == StartsWith(it.path, a.path \o <<SLASH>>)
Retained(a, it) == ~Truthy(a.path) \/ UnderPrefix(a, it)

\* after an exact match the loop is left (break)
\* (faulty variant: the loop goes on)
AfterExactMatchOn(n) == "tree_loop"
AfterExactMatch(n) == "discovered"

\* getTreeContents: one iteration of the loop over data.tree
TreeItem ==
    /\ pc = "tree_loop"
    /\ item < Len(tree)
    /\ LET it == tree[item + 1]
       IN  IF it.type # "blob"
           THEN UNCHANGED <<files, progress, pc>>
           ELSE IF ExactMatch(parsed, it)
           THEN /\ files' = Append(files, FileOfItem(parsed, it))
                /\ progress' = Append(progress, Len(files) + 1)
                /\ pc' = AfterExactMatch(item)
           ELSE IF Retained(parsed, it)
           THEN /\ files' = Append(files, FileOfItem(parsed, it))
                /\ progress' = Append(progress, Len(files) + 1)
                /\ pc' = pc
           ELSE UNCHANGED <<files, progress, pc>>
    /\ item' = item + 1
    /\ UNCHANGED <<runVars, url, given, parsed, error, tree, calls, enrichment,
                   loadVars>>

\* getTreeContents: the loop has gone through data.tree; return files
TreeReturn ==
    /\ pc = "tree_loop"
    /\ item = Len(tree)
    /\ pc' = "discovered"
    /\ UNCHANGED <<runVars, resolveVars, discoverVars, loadVars>>

---------------------------------------------------------------------------
(* Inputs of discovery *)

\* entries the remote may list; "s" is listed as a directory (S_dir) or as a
\* file (S_file), never both
EntryUniverse ==
    {[path |-> <<"s">>, type |-> "tree", size |-> NoSize, sha |-> <<"sha-1">>],
     [path |-> <<"s">>, type |-> "blob", size |-> 4, sha |-> <<"sha-2">>],
     [path |-> <<"s", SLASH, "a">>, type |-> "blob", size |-> 3, sha |-> <<"sha-3">>],
     [path |-> <<"s", SLASH, "l", SLASH, "b">>, type |-> "blob", size |-> NoSize,
      sha |-> <<"sha-4">>],
     [path |-> <<"s", "2", SLASH, "a">>, type |-> "blob", size |-> 2, sha |-> <<"sha-5">>],
     [path |-> <<"a">>, type |-> "blob", size |-> 1, sha |-> <<"sha-6">>]}

\* a listing of a git tree: paths are pairwise distinct and a file is not a
\* directory of another entry
WellFormedTree(t) ==
    /\ \A h, k \in 1..Len(t) : h # k => t[h].path # t[k].path
    /\ \A h, k \in 1..Len(t) :
          t[h].type = "blob" => ~StartsWith(t[k].path, t[h].path \o <<SLASH>>)

Trees == {t \in SeqsUpTo(EntryUniverse, MaxTree) : WellFormedTree(t)}

AddressPaths == {NULL, <<"s">>, <<"a">>, <<"s", SLASH, "a">>, <<"s", SLASH, "l">>}

Addresses ==
    {[owner |-> <<"o">>, repo |-> <<"r">>, ref |-> r, path |-> p, type |-> t] :
        r \in {NULL, <<"v1">>}, p \in AddressPaths, t \in {"root", "tree", "blob"}}

\* the invariant of the address: a root has no path
WellFormedAddress(a) == a.type = "root" => a.path = NULL

\* the token main hands to the discovery client
DiscoveryToken == <<"t", "1">>

InitDiscover ==
    /\ pc = "discover"
    /\ options = [NoOptions EXCEPT !.token = DiscoveryToken]
    /\ env = NoEnv
    /\ token = DiscoveryToken
    /\ exitCode = -1
    /\ url = <<>>
    /\ given = [scheme |-> TRUE, host |-> <<>>, segs |-> <<>>, pad |-> FALSE]
    /\ parsed \in {a \in Addresses : WellFormedAddress(a)}
    /\ error = "none"
    /\ tree \in Trees
    /\ item = 0
    /\ files = <<>>
    /\ progress = <<>>
    /\ calls = <<>>
    /\ enrichment = "none"
    /\ InitLoadIdle

NextDiscover ==
    \/ GetDefaultBranch
    \/ BlobContents
    \/ FetchTree
    \/ TreeItem
    \/ TreeReturn

SpecDiscover == InitDiscover /\ [][NextDiscover]_vars

---------------------------------------------------------------------------
(* downloader.js: the materializer *)

\* path.basename: the text after the last "/", trailing "/" ignored
Basename(s) ==
    LET parts == Split(StripTrailingSlashes(s))
    IN  parts[Len(parts)]

\* path.join(a, b): the two joined with "/" and normalized; empty and "."
\* segments drop out (the inputs hold no ".." segment)
PathJoin(a, b) ==
    LET whole == a \o <<SLASH>> \o b
        parts == SelectSeq(Split(whole), LAMBDA g : g # <<>> /\ g # <<".">>)
        body  == Join(parts)
    IN  IF a # <<>> /\ Head(a) = SLASH THEN <<SLASH>> \o body
        ELSE IF body = <<>> THEN <<".">>
        ELSE body

\* getRelativePath(filePath, parsed)
\* (faulty variant: the basename for every file)
getRelativePathFlat(filePath, a) == Basename(filePath)
\* (faulty variant: no basename for a single file)
getRelativePathPlain(filePath, a) ==
    IF Truthy(a.path) /\ a.type = "tree" /\ StartsWith(filePath, a.path \o <<SLASH>>)
    THEN Slice(filePath, Len(a.path \o <<SLASH>>))
    ELSE filePath
getRelativePath(filePath, a) ==
    IF Truthy(a.path) /\ a.type = "tree" /\ StartsWith(filePath, a.path \o <<SLASH>>)
    THEN Slice(filePath, Len(a.path \o <<SLASH>>))
    ELSE IF a.type = "blob" /\ Truthy(a.path)
    THEN Basename(filePath)
    ELSE filePath

\* downloadFiles: isSingleFileWithPath
IsSingleFileWithPath == parsed.type = "blob" /\ Len(files) = 1 /\ outputIsFilePath

\* downloadFiles: outputPath
OutputPath(relativePath) ==
    IF IsSingleFileWithPath THEN outputDir ELSE PathJoin(outputDir, relativePath)

\* the Buffer returned by client.downloadFile(url)
Content(from, n) == [from |-> from, length |-> n]

\* catch (error) { errors.push({ file: relativePath, error: error.message }) }
\* (faulty variant: the array is overwritten)
RecordErrorLast(errs, relativePath, message) ==
    << [file |-> relativePath, error |-> message] >>
RecordError(errs, relativePath, message) ==
    Append(errs, [file |-> relativePath, error |-> message])

\* the archive after the catch block of downloadToZip: nothing is appended
\* (faulty variant: an empty entry is appended for the failed file)
ArchiveAfterFailureStub(arch, relativePath) ==
    Append(arch, [name |-> relativePath, content |-> Content(<<>>, 0)])
ArchiveAfterFailure(arch, relativePath) == arch

\* updateProgress(fileName, bytes)
UpdateProgress(fileName, bytes) ==
    /\ current' = current + 1
    /\ downloadedBytes' = downloadedBytes + bytes
    /\ shown' = Append(shown, fileName)

\* path.dirname: the text before the last "/", trailing "/" ignored; "."
\* when there is no "/"
Dirname(s) ==
    LET parts == Split(StripTrailingSlashes(s))
        body  == Join(SubSeq(parts, 1, Len(parts) - 1))
    IN  IF Len(parts) <= 1 THEN <<".">>
        ELSE IF body = <<>> THEN <<SLASH>>
        ELSE body

\* the token of the client that downloadFiles / downloadToZip build
DownloadToken == env.GITHUB_TOKEN

\* for (const file of files) with await in its body: an iteration begins
\* when the one before it is over
\* (faulty variant: the iterations are started without waiting)
AwaitsPreviousNever(begun, over) == TRUE
AwaitsPrevious(begun, over) == begun = over

\* downloadFiles: an iteration begins: relativePath, outputPath, mkdir, and
\* the request of client.downloadFile.  A failing mkdir ends the iteration
\* in the catch block.
DownloadFilesBegin ==
    /\ pc = "dir_loop"
    /\ started < Len(files)
    /\ AwaitsPrevious(started, idx)
    /\ LET file == files[started + 1]
           relativePath == getRelativePath(file.path, parsed)
           outputPath == OutputPath(relativePath)
       IN  \E ok \in BOOLEAN :
              IF ok
              THEN /\ created' = created \cup {Dirname(outputPath)}
                   /\ calls' = Append(calls, Call("raw", file.downloadUrl,
                                                  DownloadToken))
                   /\ UNCHANGED <<idx, outcomes, errors, current,
                                  downloadedBytes, shown>>
              ELSE /\ errors' = RecordError(errors, relativePath, "mkdir failed")
                   /\ UpdateProgress(relativePath, 0)
                   /\ outcomes' = Append(outcomes, [path |-> file.path,
                                                    res |-> "mkdir failed"])
                   /\ idx' = idx + 1
                   /\ UNCHANGED <<created, calls>>
    /\ started' = started + 1
    /\ UNCHANGED <<pc, runVars, resolveVars, tree, item, files, progress,
                   enrichment, mode, outputDir, outputIsFilePath, written,
                   stream, listening, archive, finalized, zipFile, successCount>>

\* downloadFiles: the rest of an iteration: the download answers, the
\* content is written, or the catch block records the failure.  res is what
\* the network and the file system do to this file.
DownloadFilesStep ==
    /\ pc = "dir_loop"
    /\ idx < started
    /\ LET file == files[idx + 1]
           relativePath == getRelativePath(file.path, parsed)
           outputPath == OutputPath(relativePath)
       IN  \E res \in {"ok", "download failed", "write failed"} :
           \E n \in 0..MaxBytes :
              /\ res # "ok" => n = 0
              /\ IF res = "ok"
                 THEN /\ written' = Append(written,
                                       [path |-> outputPath,
                                        content |-> Content(file.downloadUrl, n)])
                      /\ errors' = errors
                 ELSE /\ written' = written
                      /\ errors' = RecordError(errors, relativePath, res)
              /\ UpdateProgress(relativePath, n)
              /\ outcomes' = Append(outcomes, [path |-> file.path, res |-> res])
    /\ idx' = idx + 1
    /\ UNCHANGED <<pc, runVars, resolveVars, discoverVars, mode, outputDir,
                   outputIsFilePath, started, created, stream, listening,
                   archive, finalized, zipFile, successCount>>

\* downloadFiles: after the loop, the summary
DownloadFilesSummary ==
    /\ pc = "dir_loop"
    /\ idx = Len(files)
    /\ successCount' = Len(files) - Len(errors)
    /\ pc' = "done"
    /\ UNCHANGED <<runVars, resolveVars, discoverVars, mode, outputDir,
                   outputIsFilePath, started, idx, outcomes, errors, current,
                   downloadedBytes, shown, written, created, stream, listening,
                   archive, finalized, zipFile>>

\* downloadToZip: mkdir(dirname(zipPath)), then createWriteStream(zipPath),
\* the archive and the pipe.  A failing mkdir is thrown to the caller.
ZipOpen ==
    /\ pc = "zip_open"
    /\ \E ok \in BOOLEAN :
          IF ok
          THEN /\ pc' = "zip_loop"
               /\ error' = error
               /\ created' = created \cup {Dirname(outputDir), outputDir}
               /\ stream' = "open"
          ELSE /\ pc' = "load_failed"
               /\ error' = "mkdir failed"
               /\ UNCHANGED <<created, stream>>
    /\ UNCHANGED <<runVars, url, given, parsed, discoverVars, mode, outputDir,
                   outputIsFilePath, started, idx, outcomes, errors, current,
                   downloadedBytes, shown, written, listening, archive,
                   finalized, zipFile, successCount>>

\* downloadToZip: an iteration begins: the request of client.downloadFile
DownloadToZipBegin ==
    /\ pc = "zip_loop"
    /\ started < Len(files)
    /\ AwaitsPrevious(started, idx)
    /\ calls' = Append(calls, Call("raw", files[started + 1].downloadUrl,
                                   DownloadToken))
    /\ started' = started + 1
    /\ UNCHANGED <<pc, runVars, resolveVars, tree, item, files, progress,
                   enrichment, mode, outputDir, outputIsFilePath, idx, outcomes,
                   errors, current, downloadedBytes, shown, written, created,
                   stream, listening, archive, finalized, zipFile, successCount>>

\* downloadToZip: the rest of an iteration: the download answers, the
\* content is appended to the archive, or the catch block records the failure
DownloadToZipStep ==
    /\ pc = "zip_loop"
    /\ idx < started
    /\ LET file == files[idx + 1]
           relativePath == getRelativePath(file.path, parsed)
       IN  \E res \in {"ok", "download failed"} :
           \E n \in 0..MaxBytes :
              /\ res # "ok" => n = 0
              /\ IF res = "ok"
                 THEN /\ archive' = Append(archive,
                                       [name |-> relativePath,
                                        content |-> Content(file.downloadUrl, n)])
                      /\ errors' = errors
                 ELSE /\ archive' = ArchiveAfterFailure(archive, relativePath)
                      /\ errors' = RecordError(errors, relativePath, res)
              /\ UpdateProgress(relativePath, n)
              /\ outcomes' = Append(outcomes, [path |-> file.path, res |-> res])
    /\ idx' = idx + 1
    /\ UNCHANGED <<pc, runVars, resolveVars, discoverVars, mode, outputDir,
                   outputIsFilePath, started, written, created, stream,
                   listening, finalized, zipFile, successCount>>

\* downloadToZip: archive.finalize() is called after the loop
ZipFinalize ==
    /\ pc = "zip_loop"
    /\ idx = Len(files)
    /\ finalized' = finalized + 1
    /\ zipFile' = archive
    /\ pc' = "zip_finalizing"
    /\ UNCHANGED <<runVars, resolveVars, discoverVars, mode, outputDir,
                   outputIsFilePath, started, idx, outcomes, errors, current,
                   downloadedBytes, shown, written, created, stream, listening,
                   archive, successCount>>

\* downloadToZip: the promise of finalize() resolves; only now
\* output.on('close', resolve) and output.on('error', reject) are called
ZipListen ==
    /\ pc = "zip_finalizing"
    /\ listening' = TRUE
    /\ pc' = "zip_wait"
    /\ UNCHANGED <<runVars, resolveVars, discoverVars, mode, outputDir,
                   outputIsFilePath, started, idx, outcomes, errors, current,
                   downloadedBytes, shown, written, created, stream, archive,
                   finalized, zipFile, successCount>>

\* the output stream emits 'close' once the ended archive has been flushed
\* to the file; the file is closed by a callback of the event loop, which
\* runs after the continuation of the awaited finalize().  The listener
\* resolves the promise and the summary is printed.
ZipClosed ==
    /\ pc = "zip_wait"
    /\ listening
    /\ stream = "open"
    /\ stream' = "closed"
    /\ successCount' = Len(files) - Len(errors)
    /\ pc' = "done"
    /\ UNCHANGED <<runVars, resolveVars, discoverVars, mode, outputDir,
                   outputIsFilePath, started, idx, outcomes, errors, current,
                   downloadedBytes, shown, written, created, listening, archive,
                   finalized, zipFile>>

\* the output stream emits 'error' (the file cannot be opened or written) at
\* any time after createWriteStream.  With the listener registered the
\* promise rejects; without it the event is unhandled and thrown as an
\* uncaught exception.
OutputError ==
    /\ pc \in {"zip_loop", "zip_finalizing", "zip_wait"}
    /\ stream = "open"
    /\ stream' = "errored"
    /\ error' = "stream error"
    /\ pc' = IF listening THEN "load_failed" ELSE "crashed"
    /\ UNCHANGED <<runVars, url, given, parsed, discoverVars, mode, outputDir,
                   outputIsFilePath, started, idx, outcomes, errors, current,
                   downloadedBytes, shown, written, created, listening, archive,
                   finalized, zipFile, successCount>>

---------------------------------------------------------------------------
(* Inputs of the materializer *)

Descriptor(a, path) ==
    [path |-> path, downloadUrl |-> getRawUrl(a, path), size |-> 0, sha |-> <<>>]

\* the paths of the files handed over, in the order of the list
FileUniverse ==
    << <<"s", SLASH, "a">>, <<"s", SLASH, "l", SLASH, "a">>,
       <<"s", "2", SLASH, "a">>, <<"b">> >>

\* the sublists of FileUniverse of up to MaxFiles paths
FileLists ==
    LET picks == {S \in SUBSET (1..Len(FileUniverse)) : Cardinality(S) <= MaxFiles}
        Pick(S) == SelectSeq(FileUniverse,
                             LAMBDA q : \E k \in S : FileUniverse[k] = q)
    IN  {Pick(S) : S \in picks}

LoadAddresses ==
    {[owner |-> <<"o">>, repo |-> <<"r">>, ref |-> <<"v1">>, path |-> p, type |-> t] :
        p \in {NULL, <<"s">>, <<"s", SLASH, "l">>}, t \in {"root", "tree", "blob"}}

OutputTargets == {<<"out">>, <<"d", SLASH>>}

\* process.env.GITHUB_TOKEN of the runs of the materializer
LoadToken == <<"t", "2">>

InitMaterialize ==
    /\ options = NoOptions
    /\ env = [NoEnv EXCEPT !.GITHUB_TOKEN = LoadToken]
    /\ token = NULL
    /\ exitCode = -1
    /\ url = <<>>
    /\ given = [scheme |-> TRUE, host |-> <<>>, segs |-> <<>>, pad |-> FALSE]
    /\ parsed \in {a \in LoadAddresses : WellFormedAddress(a)}
    /\ error = "none"
    /\ tree = <<>> /\ item = 0 /\ progress = <<>> /\ calls = <<>>
    /\ enrichment = "none"
    /\ \E paths \in FileLists :
          files = [k \in 1..Len(paths) |-> Descriptor(parsed, paths[k])]
    /\ mode \in {"dir", "zip"}
    /\ pc = IF mode = "dir" THEN "dir_loop" ELSE "zip_open"
    /\ outputDir \in OutputTargets
    /\ outputIsFilePath \in (IF mode = "dir" THEN BOOLEAN ELSE {FALSE})
    /\ InitLoadLocals

NextMaterialize ==
    \/ DownloadFilesBegin
    \/ DownloadFilesStep
    \/ DownloadFilesSummary
    \/ ZipOpen
    \/ DownloadToZipBegin
    \/ DownloadToZipStep
    \/ ZipFinalize
    \/ ZipListen
    \/ ZipClosed
    \/ OutputError

SpecMaterialize == InitMaterialize /\ [][NextMaterialize]_vars

---------------------------------------------------------------------------
(* index.js: main *)

MaxRunTree == 3     \* entries of the listing of a whole run

\* a || b
Or(a, b) == IF Truthy(a) THEN a ELSE b

\* main: token = options.token || process.env.GITHUB_TOKEN, then --gh
ChooseToken ==
    /\ pc = "start"
    /\ LET first == Or(options.token, env.GITHUB_TOKEN)
       IN  IF ~Truthy(first) /\ options.gh
           THEN /\ token' = env.ghToken
                /\ pc' = IF Truthy(env.ghToken) THEN "resolve" ELSE "no_token"
                /\ exitCode' = IF Truthy(env.ghToken) THEN exitCode ELSE 2
           ELSE /\ token' = first
                /\ pc' = "resolve"
                /\ exitCode' = exitCode
    /\ UNCHANGED <<options, env, resolveVars, discoverVars, loadVars>>

\* main: const client = new GitHubClient(token), then client.getContents
NewClient ==
    /\ pc = "resolved"
    /\ pc' = "discover"
    /\ UNCHANGED <<runVars, resolveVars, discoverVars, loadVars>>

\* main: the catch block around discovery: exit(1)
DiscoveryFailed ==
    /\ pc = "discover_failed"
    /\ exitCode' = 1
    /\ pc' = "exited"
    /\ UNCHANGED <<options, env, token, resolveVars, discoverVars, loadVars>>

\* main: if (files.length === 0) exit(1)
\* (faulty variant: an empty result is handed to the materializer)
NoFilesFoundNever(fs) == FALSE
NoFilesFound(fs) == Len(fs) = 0

\* main: after discovery: exit(1) on no files, else downloadToZip(files,
\* options.zip, parsed) or downloadFiles(files, options.output, parsed); no
\* options object is handed to downloadFiles
StartDownload ==
    /\ pc = "discovered"
    /\ IF NoFilesFound(files)
       THEN /\ exitCode' = 1
            /\ pc' = "exited"
            /\ UNCHANGED <<mode, outputDir>>
       ELSE /\ exitCode' = exitCode
            /\ mode' = IF Truthy(options.zip) THEN "zip" ELSE "dir"
            /\ outputDir' = IF Truthy(options.zip) THEN options.zip
                            ELSE options.output
            /\ pc' = IF Truthy(options.zip) THEN "zip_open" ELSE "dir_loop"
    /\ outputIsFilePath' = FALSE
    /\ UNCHANGED <<options, env, token, resolveVars, discoverVars, started, idx,
                   outcomes, errors, current, downloadedBytes, shown, written,
                   created, stream, listening, archive, finalized, zipFile,
                   successCount>>

\* main: the catch block around the download: exit(1)
DownloadFailed ==
    /\ pc = "load_failed"
    /\ exitCode' = 1
    /\ pc' = "exited"
    /\ UNCHANGED <<options, env, token, resolveVars, discoverVars, loadVars>>

\* an unhandled 'error' event is an uncaught exception: the process ends
\* with code 1
UncaughtException ==
    /\ pc = "crashed"
    /\ exitCode' = 1
    /\ pc' = "exited"
    /\ UNCHANGED <<options, env, token, resolveVars, discoverVars, loadVars>>

\* main returns after "Done!": the process ends with code 0
MainReturns ==
    /\ pc = "done"
    /\ exitCode' = 0
    /\ pc' = "exited"
    /\ UNCHANGED <<options, env, token, resolveVars, discoverVars, loadVars>>

---------------------------------------------------------------------------
(* Inputs of a run *)

\* the path of the URL on the command line
RunSegs ==
    {<< <<"o">>, <<"r">> >>,
     << <<"o">>, <<"r">>, <<"tree">>, <<"v1">>, <<"s">> >>,
     << <<"o">>, <<"r">>, <<"tree">>, <<"v1">>, <<"s">>, <<"l">> >>,
     << <<"o">>, <<"r">>, <<"tree">>, <<"v1">>, <<"a">> >>,
     << <<"o">>, <<"r">>, <<"blob">>, <<"v1">>, <<"s">>, <<"a">> >>,
     << <<"o">>, <<"r">>, <<"blob">>, <<"v1">> >>,
     << <<"o">> >>}

\* the entries of EntryUniverse in the order a listing of a run has them
RunEntries ==
    <<[path |-> <<"a">>, type |-> "blob", size |-> 1, sha |-> <<"sha-6">>],
      [path |-> <<"s">>, type |-> "tree", size |-> NoSize, sha |-> <<"sha-1">>],
      [path |-> <<"s">>, type |-> "blob", size |-> 4, sha |-> <<"sha-2">>],
      [path |-> <<"s", SLASH, "a">>, type |-> "blob", size |-> 3, sha |-> <<"sha-3">>],
      [path |-> <<"s", SLASH, "l", SLASH, "b">>, type |-> "blob", size |-> NoSize,
       sha |-> <<"sha-4">>],
      [path |-> <<"s", "2", SLASH, "a">>, type |-> "blob", size |-> 2,
       sha |-> <<"sha-5">>]>>

\* the listing of entries S of RunEntries
RunTree(S) == SelectSeq(RunEntries, LAMBDA e : \E k \in S : RunEntries[k] = e)

\* the listing of the runs that vary the credentials
CredentialTree == RunTree({1, 2, 4})

\* -o / -z of the command line; without -o the output is "."
RunOutputs ==
    {[zip |-> NULL, output |-> <<".">>],
     [zip |-> NULL, output |-> <<"out">>],
     [zip |-> NULL, output |-> <<"d", SLASH>>],
     [zip |-> <<"z", SLASH, "a.zip">>, output |-> <<".">>]}

RunTokens == [flag : {NULL, <<"t", "1">>}, environment : {NULL, <<"t", "2">>},
              gh : BOOLEAN, cli : {NULL, <<"t", "3">>}]

Init ==
    /\ pc = "start"
    /\ \E segs \in RunSegs :
          given = [scheme |-> TRUE, host |-> <<"github.com">>, segs |-> segs,
                   pad |-> FALSE]
    /\ url = RawUrl(given)
    /\ parsed = NoAddress
    /\ error = "none"
    /\ \E t \in RunTokens, o \in RunOutputs :
          /\ options = [token |-> t.flag, gh |-> t.gh, zip |-> o.zip,
                        output |-> o.output]
          /\ env = [GITHUB_TOKEN |-> t.environment, ghToken |-> t.cli]
    /\ token = NULL
    /\ exitCode = -1
    /\ \E S \in SUBSET (1..Len(RunEntries)) :
          /\ Cardinality(S) <= MaxRunTree
          /\ WellFormedTree(RunTree(S))
          /\ tree = RunTree(S)
    /\ \/ tree = CredentialTree /\ options.output = <<".">>
       \/ options.token = NULL /\ ~options.gh /\ env = NoEnv
    /\ item = 0 /\ files = <<>> /\ progress = <<>> /\ calls = <<>>
    /\ enrichment = "none"
    /\ InitLoadIdle

Next ==
    \/ ChooseToken
    \/ Resolve
    \/ NewClient
    \/ GetDefaultBranch
    \/ BlobContents
    \/ FetchTree
    \/ TreeItem
    \/ TreeReturn
    \/ DiscoveryFailed
    \/ StartDownload
    \/ DownloadFilesBegin
    \/ DownloadFilesStep
    \/ DownloadFilesSummary
    \/ ZipOpen
    \/ DownloadToZipBegin
    \/ DownloadToZipStep
    \/ ZipFinalize
    \/ ZipListen
    \/ ZipClosed
    \/ OutputError
    \/ DownloadFailed
    \/ UncaughtException
    \/ MainReturns

Spec == Init /\ [][Next]_vars

---------------------------------------------------------------------------
(* Discovery followed by the materializer, as a caller of the two exported *)
(* functions runs them                                                     *)

\* the addresses parseGitHubUrl returns: a root has no reference and no
\* path, a tree or blob address has a reference
ParsedAddresses ==
    {a \in Addresses :
        /\ WellFormedAddress(a)
        /\ a.type = "root" <=> a.ref = NULL}

\* downloadFiles(files, outputDir, parsed, options) or
\* downloadToZip(files, zipPath, parsed) is called with the files discovered
CallDownload ==
    /\ pc = "discovered"
    /\ \E m \in {"dir", "zip"}, o \in OutputTargets, p \in BOOLEAN :
          /\ mode' = m
          /\ outputDir' = o
          /\ outputIsFilePath' = (m = "dir" /\ p)
          /\ pc' = IF m = "dir" THEN "dir_loop" ELSE "zip_open"
    /\ UNCHANGED <<runVars, resolveVars, discoverVars, started, idx, outcomes,
                   errors, current, downloadedBytes, shown, written, created,
                   stream, listening, archive, finalized, zipFile, successCount>>

InitLoad ==
    /\ pc = "discover"
    /\ options = NoOptions
    /\ env = [NoEnv EXCEPT !.GITHUB_TOKEN = LoadToken]
    /\ token = LoadToken
    /\ exitCode = -1
    /\ url = <<>>
    /\ given = [scheme |-> TRUE, host |-> <<>>, segs |-> <<>>, pad |-> FALSE]
    /\ parsed \in ParsedAddresses
    /\ error = "none"
    /\ \E S \in SUBSET (1..Len(RunEntries)) :
          /\ Cardinality(S) <= MaxRunTree
          /\ WellFormedTree(RunTree(S))
          /\ tree = RunTree(S)
    /\ item = 0 /\ files = <<>> /\ progress = <<>> /\ calls = <<>>
    /\ enrichment = "none"
    /\ InitLoadIdle

NextLoad ==
    \/ GetDefaultBranch
    \/ BlobContents
    \/ FetchTree
    \/ TreeItem
    \/ TreeReturn
    \/ CallDownload
    \/ DownloadFilesBegin
    \/ DownloadFilesStep
    \/ DownloadFilesSummary
    \/ ZipOpen
    \/ DownloadToZipBegin
    \/ DownloadToZipStep
    \/ ZipFinalize
    \/ ZipListen
    \/ ZipClosed
    \/ OutputError

SpecLoad == InitLoad /\ [][NextLoad]_vars

---------------------------------------------------------------------------
(* The resolver against the URL it was given *)

\* the non-empty path segments of the generated URL
RefSegs == SelectSeq(given.segs, LAMBDA g : g # <<>>)

RefMarker(g) == g = <<"tree">> \/ g = <<"blob">>

RefStrip(g) ==
    IF Len(g) > 0 /\ g[Len(g)] = ".git" THEN [k \in 1..(Len(g) - 1) |-> g[k]] ELSE g

RECURSIVE RefJoinFrom(_, _)
RefJoinFrom(s, k) ==
    IF k = Len(s) THEN s[k] ELSE s[k] \o <<"/">> \o RefJoinFrom(s, k + 1)

\* the reference mapping from segments to an address
RefAddress(s) ==
    IF Len(s) = 2
    THEN [owner |-> s[1], repo |-> RefStrip(s[2]), ref |-> NULL, path |-> NULL,
          type |-> "root"]
    ELSE [owner |-> s[1], repo |-> RefStrip(s[2]), ref |-> s[4],
          path |-> IF Len(s) > 4 THEN RefJoinFrom(s, 5) ELSE NULL,
          type |-> IF s[3] = <<"tree">> THEN "tree" ELSE "blob"]

RefUnresolvable ==
    \/ ~given.scheme
    \/ Len(RefSegs) < 2
    \/ Len(RefSegs) >= 3 /\ ~RefMarker(RefSegs[3])
    \/ Len(RefSegs) = 3 /\ RefMarker(RefSegs[3])

\* C3: an input that is not a URL, has fewer than 2 non-empty path segments,
\* has a segment 2 that is neither "tree" nor "blob", or ends with the marker,
\* makes parseGitHubUrl throw: no address is returned and no remote call has
\* been issued.
C3_ResolveRejects ==
    (pc # "resolve" /\ RefUnresolvable) =>
        /\ pc = "invalid_url"
        /\ error # "none"
        /\ parsed = NoAddress
        /\ calls = <<>>

C3_Witness ==
    /\ pc = "invalid_url"
    /\ given.scheme /\ given.pad /\ given.host = <<"github.com">>
    /\ Len(RefSegs) = 3 /\ RefSegs[3] = <<"tree">>

\* C4: no URL on a host other than github.com is resolved to an address.
C4_OnlyGitHubHost ==
    pc = "resolved" => given.host = <<"github.com">>

\* C5: the address returned for an accepted URL is the reference mapping of
\* its non-empty path segments: owner, repository without a trailing ".git",
\* root for two segments, else the marker, the reference and the joined rest.
C5_ResolveMapping ==
    pc = "resolved" =>
        /\ Len(RefSegs) >= 2
        /\ Len(RefSegs) # 3
        /\ parsed = RefAddress(RefSegs)

C5_Witness ==
    /\ pc = "resolved"
    /\ Len(RefSegs) = 6
    /\ parsed.repo # RefSegs[2]
    /\ parsed.type = "tree"

\* C6: every address returned has a non-empty owner, a non-empty repository,
\* a type among root, tree and blob, and no path when the type is root.
C6_AddressInvariant ==
    pc = "resolved" =>
        /\ Truthy(parsed.owner)
        /\ Truthy(parsed.repo)
        /\ parsed.type \in {"root", "tree", "blob"}
        /\ (parsed.type = "root" => parsed.path = NULL)

---------------------------------------------------------------------------
(* Discovery against the remote listing *)

\* q lies under the directory p
RefUnder(p, q) ==
    /\ Len(q) > Len(p) + 1
    /\ \A k \in 1..Len(p) : q[k] = p[k]
    /\ q[Len(p) + 1] = "/"

\* the listing entry e is a file reachable under the address's path
RefReachable(a, e) ==
    /\ e.type # "tree"
    /\ (a.path = NULL \/ e.path = a.path \/ RefUnder(a.path, e.path))

\* positions of the listing holding a file whose path is the address's path
RefExactAt(a, t) == {k \in 1..Len(t) : t[k].type # "tree" /\ t[k].path = a.path}

PathsOf(seq) == [k \in 1..Len(seq) |-> seq[k].path]

\* C7 as stated: every blob address yields exactly one descriptor, and a tree
\* or root address one descriptor per file reachable under its path.
C7_BlobYieldsOne ==
    pc = "discovered" =>
        /\ parsed.type = "blob" => Len(files) = 1
        /\ parsed.type # "blob" =>
              /\ Len(files) = Cardinality({k \in 1..Len(tree) : RefReachable(parsed, tree[k])})
              /\ {files[k].path : k \in 1..Len(files)}
                    = {tree[k].path : k \in {h \in 1..Len(tree) : RefReachable(parsed, tree[h])}}

\* C7, amended: a blob address with a path yields exactly one descriptor, for
\* that path, whatever the listing holds; every other address (tree, root, or
\* a blob without a path) yields one descriptor per file of the listing
\* reachable under its path.
C7_BlobWithPathYieldsOne ==
    pc = "discovered" =>
        /\ (parsed.type = "blob" /\ parsed.path # NULL) =>
              /\ Len(files) = 1
              /\ files[1].path = parsed.path
        /\ ~(parsed.type = "blob" /\ parsed.path # NULL) =>
              /\ Len(files) = Cardinality({k \in 1..Len(tree) : RefReachable(parsed, tree[k])})
              /\ {files[k].path : k \in 1..Len(files)}
                    = {tree[k].path : k \in {h \in 1..Len(tree) : RefReachable(parsed, tree[h])}}

C7_Witness ==
    /\ pc = "discovered"
    /\ parsed.type = "blob" /\ parsed.path = <<"s", "/", "a">>
    /\ Len(tree) >= 2
    /\ \A k \in 1..Len(tree) : tree[k].path # parsed.path
    /\ Len(files) = 1

\* C8: when a file of the listing has exactly the address's path, the tree
\* listing returns the descriptor of that entry alone and examines no entry
\* after it.
C8_ExactMatchShortCircuit ==
    (/\ pc \in {"tree_loop", "discovered"}
     /\ parsed.path # NULL
     /\ ~(parsed.type = "blob")
     /\ RefExactAt(parsed, tree) # {}) =>
        LET k == CHOOSE h \in RefExactAt(parsed, tree) : TRUE
        IN  /\ item <= k
            /\ pc = "discovered" =>
                  /\ item = k
                  /\ Len(files) = 1
                  /\ files[1].path = tree[k].path
                  /\ files[1].sha = tree[k].sha
                  /\ progress = <<1>>

C8_Witness ==
    /\ pc = "discovered"
    /\ parsed.type = "tree" /\ parsed.path = <<"a">>
    /\ Len(tree) = 3
    /\ tree[1].type = "blob" /\ tree[2].path = <<"a">> /\ tree[3].type = "blob"
    /\ Len(files) = 1

\* C9: without an exact match, the tree listing returns exactly the files of
\* the listing under address.path + "/" (all files when the path is absent),
\* in the order of the listing.
C9_PrefixFilterInOrder ==
    (/\ pc = "discovered"
     /\ ~(parsed.type = "blob" /\ parsed.path # NULL)
     /\ RefExactAt(parsed, tree) = {}) =>
        PathsOf(files) =
            PathsOf(SelectSeq(tree, LAMBDA e :
                        /\ e.type # "tree"
                        /\ (parsed.path = NULL \/ RefUnder(parsed.path, e.path))))

C9_Witness ==
    /\ pc = "discovered"
    /\ parsed.type = "tree" /\ parsed.path = <<"s">>
    /\ PathsOf(tree) = << <<"s", "/", "l", "/", "b">>, <<"s", "2", "/", "a">>,
                          <<"s", "/", "a">> >>
    /\ PathsOf(files) = << <<"s", "/", "l", "/", "b">>, <<"s", "/", "a">> >>

---------------------------------------------------------------------------
(* The materializer against what happened to each file *)

\* positions, among the first n attempts, of the files that failed
RefFailed(n) == {k \in 1..n : outcomes[k].res # "ok"}

\* C1: a failing download or write never ends the batch: the files are
\* attempted one by one in list order, the loop is left only after the last
\* one, one error is recorded per failed file, and the count of successes
\* reported is the number of files less the number that failed.
C1_BatchNeverAborts ==
    /\ Len(outcomes) = idx
    /\ current = idx
    /\ idx <= Len(files)
    /\ \A k \in 1..idx : outcomes[k].path = files[k].path
    /\ Len(errors) = Cardinality(RefFailed(idx))
    /\ (0 < idx /\ idx < Len(files)) =>
          (pc \in {"dir_loop", "zip_loop"} \/ stream = "errored")
    /\ pc = "done" =>
          /\ idx = Len(files)
          /\ successCount = Len(files) - Cardinality(RefFailed(Len(files)))

C1_Witness ==
    /\ pc = "done"
    /\ mode = "dir"
    /\ Len(files) = 3
    /\ outcomes[1].res = "download failed"
    /\ outcomes[2].res = "write failed"
    /\ outcomes[3].res = "ok"
    /\ successCount = 1

\* the entries the archive must hold after n attempts: one per file whose
\* download succeeded, for that file's content, none for a failed file
RefEntriesFor(n) ==
    /\ Len(archive) = n - Cardinality(RefFailed(n))
    /\ \A k \in 1..n :
          outcomes[k].res = "ok" <=>
              \E e \in 1..Len(archive) : archive[e].content.from = files[k].downloadUrl
    /\ \A e \in 1..Len(archive) :
          \E k \in 1..n :
              /\ outcomes[k].res = "ok"
              /\ archive[e].content.from = files[k].downloadUrl
              /\ archive[e].name = shown[k]

\* C2: the archive is finalized exactly once, only after every file has been
\* attempted, and then holds an entry, under its relative path, for exactly
\* the files whose download succeeded.
C2_FinalizeOnceAfterAll ==
    /\ finalized <= 1
    /\ pc = "zip_loop" => finalized = 0
    /\ finalized = 1 =>
          /\ mode = "zip"
          /\ idx = Len(files)
          /\ zipFile = archive
          /\ RefEntriesFor(Len(files))
    /\ (pc = "done" /\ mode = "zip") => finalized = 1

C2_Witness ==
    /\ pc = "done"
    /\ mode = "zip"
    /\ finalized = 1
    /\ Len(files) = 3
    /\ outcomes[1].res = "ok"
    /\ outcomes[2].res = "download failed"
    /\ outcomes[3].res = "ok"
    /\ Len(zipFile) = 2

\* the text of q after its last "/"
RefLastSegment(q) ==
    LET cut == IF \E k \in 1..Len(q) : q[k] = "/"
               THEN CHOOSE k \in 1..Len(q) :
                        q[k] = "/" /\ \A h \in (k + 1)..Len(q) : q[h] # "/"
               ELSE 0
    IN  [j \in 1..(Len(q) - cut) |-> q[cut + j]]

\* the relative path of the full path q for the address a
RefRelative(a, q) ==
    IF a.type = "tree" /\ a.path # NULL
    THEN IF RefUnder(a.path, q)
         THEN [j \in 1..(Len(q) - Len(a.path) - 1) |-> q[Len(a.path) + 1 + j]]
         ELSE q
    ELSE IF a.type = "blob" /\ a.path # NULL
    THEN RefLastSegment(q)
    ELSE q

\* C10: in both write modes the relative path of a file is its full path
\* without the prefix address.path + "/" for a tree address with a path (the
\* full path when it is not under it), its basename for a blob address with a
\* path, and the full path otherwise.  It names the file in the progress
\* display, in the errors, in the archive, and under the output directory.
C10_RelativePath ==
    /\ \A k \in 1..Len(shown) : shown[k] = RefRelative(parsed, files[k].path)
    /\ \A e \in 1..Len(errors) :
          \E k \in RefFailed(idx) : errors[e].file = RefRelative(parsed, files[k].path)
    /\ \A e \in 1..Len(archive) :
          \E k \in 1..idx : archive[e].name = RefRelative(parsed, files[k].path)
    /\ \A w \in 1..Len(written) :
          \/ IsSingleFileWithPath /\ written[w].path = outputDir
          \/ \E k \in 1..idx :
                written[w].path =
                    StripTrailingSlashes(outputDir) \o <<"/">>
                        \o RefRelative(parsed, files[k].path)

C10_Witness ==
    /\ pc = "done"
    /\ mode = "zip"
    /\ parsed.type = "tree" /\ parsed.path = <<"s">>
    /\ shown = << <<"a">>, <<"l", "/", "a">>, <<"s", "2", "/", "a">> >>
    /\ Len(archive) = 3

---------------------------------------------------------------------------
(* A whole run against its command line and environment *)

\* the credential the caller chose: --token, else GITHUB_TOKEN, else the
\* token of the gh CLI when --gh is set, else none
RefCredential ==
    IF options.token \notin {NULL, <<>>} THEN options.token
    ELSE IF env.GITHUB_TOKEN \notin {NULL, <<>>} THEN env.GITHUB_TOKEN
    ELSE IF options.gh THEN env.ghToken
    ELSE NULL

\* the authorization header that carries credential c
RefBearer(c) == IF c \in {NULL, <<>>} THEN NULL ELSE <<"Bearer", " ">> \o c

\* C11: every remote call of a run (default-branch lookup, tree listing,
\* blob metadata call, raw download) carries the credential the caller
\* chose as its authorization header, and none when no credential was given.
C11_SameCredentialOnEveryCall ==
    \A k \in 1..Len(calls) : calls[k].auth = RefBearer(RefCredential)

\* the run stopped in the discovery phase: the URL did not resolve, the
\* default-branch lookup or the tree listing failed or had no tree field,
\* or (so far) no file has been discovered
RefHaltedInDiscovery ==
    \/ error \notin {"none", "mkdir failed", "stream error"}
    \/ files = <<>>

\* C12: a run that fails in the discovery phase (unresolvable URL, failed
\* default-branch lookup or tree listing, listing without a tree field, no
\* file discovered) issues no download, creates no directory and no
\* archive, writes no file, and ends with a non-zero code.
C12_DiscoveryFailureWritesNothing ==
    RefHaltedInDiscovery =>
        /\ \A k \in 1..Len(calls) : calls[k].api # "raw"
        /\ started = 0
        /\ created = {}
        /\ stream = "none"
        /\ written = <<>>
        /\ archive = <<>>
        /\ pc \notin {"dir_loop", "zip_open", "zip_loop", "zip_finalizing",
                      "zip_wait", "done", "load_failed", "crashed"}
        /\ exitCode # 0

C12_Witness ==
    /\ pc = "exited"
    /\ exitCode = 1
    /\ files = <<>>
    /\ Len(tree) = 2
    /\ item = 2
    /\ options.zip # NULL
    /\ \E k \in 1..Len(calls) : calls[k].api = "tree"

\* the reference the URL names (its fourth segment), NULL when it names none
RefGivenRef == IF Len(given.segs) >= 4 THEN given.segs[4] ELSE NULL

\* the reference every request after the lookup must use
RefEffectiveRef == IF RefGivenRef = NULL THEN DefaultBranch ELSE RefGivenRef

\* positions of the default-branch lookups among the calls
RefLookups == {k \in 1..Len(calls) : calls[k].api = "repo"}

\* C13: the default branch is looked up only when the URL names no
\* reference, at most once, before any other call; its result is stored on
\* the address, and the tree listing and every raw download use the stored
\* reference.  When the URL names a reference there is no lookup and that
\* reference is used.
C13_DefaultBranchLazyOnce ==
    /\ Cardinality(RefLookups) <= 1
    /\ RefGivenRef # NULL => RefLookups = {}
    /\ (RefGivenRef = NULL /\ calls # <<>>) => RefLookups = {1}
    /\ (RefLookups = {1} /\ Len(calls) > 1) => parsed.ref = DefaultBranch
    /\ (RefGivenRef # NULL /\ parsed # NoAddress) => parsed.ref = RefGivenRef
    /\ \A k \in 1..Len(calls) :
          /\ calls[k].api = "tree" =>
                calls[k].url = <<"https://api.github.com/repos/">>
                    \o given.segs[1] \o <<"/">> \o given.segs[2]
                    \o <<"/git/trees/">> \o RefEffectiveRef \o <<"?recursive=1">>
          /\ calls[k].api = "raw" =>
                \E f \in 1..Len(files) :
                    calls[k].url = <<"https://raw.githubusercontent.com/">>
                        \o given.segs[1] \o <<"/">> \o given.segs[2]
                        \o <<"/">> \o RefEffectiveRef \o <<"/">> \o files[f].path

C13_Witness ==
    /\ pc = "exited"
    /\ exitCode = 0
    /\ Len(given.segs) = 2
    /\ parsed.ref = DefaultBranch
    /\ Len(calls) = 4
    /\ calls[1].api = "repo"
    /\ calls[2].api = "tree"
    /\ calls[4].api = "raw"

\* the URL names a single file: .../blob/<ref>/<path>
RefFileUrl == Len(given.segs) >= 5 /\ given.segs[3] = <<"blob">>

\* the URL names a folder: .../tree/<ref>/<path>, and the listing has that
\* path as a directory
RefFolderUrl ==
    /\ Len(given.segs) >= 5
    /\ given.segs[3] = <<"tree">>
    /\ \A f \in 1..Len(files) :
          files[f].path # Join(SubSeq(given.segs, 5, Len(given.segs)))

\* the last segment of the URL
RefUrlLastSegment == given.segs[Len(given.segs)]

\* C14: a single-file download with -o <path>: when <path> does not end
\* with "/" the file is written at exactly <path> and no directory of that
\* name is made; when it ends with "/" the file is written in that
\* directory under its original name.
C14_TrailingSeparatorConvention ==
    (RefFileUrl /\ options.zip = NULL /\ options.output # <<".">>) =>
        \A w \in 1..Len(written) :
            IF options.output[Len(options.output)] = "/"
            THEN written[w].path =
                     options.output \o RefUrlLastSegment
            ELSE /\ written[w].path = options.output
                 /\ options.output \notin created

\* the directory a folder download writes into: the one given with -o, or
\* one named after the last segment of the URL
RefFolderTarget ==
    IF options.output = <<".">> THEN RefUrlLastSegment
    ELSE StripTrailingSlashes(options.output)

\* C15: a folder download without -o makes, in the current directory, a
\* folder named after the last segment of the URL and writes the files in
\* it under their paths relative to the URL's path; with -o <dir> the files
\* are written under <dir>.
C15_FolderTarget ==
    (RefFolderUrl /\ options.zip = NULL /\ parsed # NoAddress) =>
        \A w \in 1..Len(written) :
            \E f \in 1..Len(files) :
                /\ RefUnder(parsed.path, files[f].path)
                /\ written[w].path =
                       RefFolderTarget \o <<"/">>
                           \o RefRelative(parsed, files[f].path)

\* the run was a usage error: the URL did not resolve, or --gh gave no token
RefUsageError == pc \in {"invalid_url", "no_token"}

\* a network or file-system error occurred in the run: a discovery call
\* failed, the archive's directory or stream failed, or a file's mkdir,
\* download or write failed
RefRuntimeError ==
    \/ error \in {"GitHub API error", "Invalid response from GitHub API",
                  "mkdir failed", "stream error"}
    \/ \E k \in 1..Len(outcomes) : outcomes[k].res # "ok"

\* C16: a run ends with code 2 exactly on a usage error, with code 1
\* whenever a network or file-system error occurred, and with code 0 only
\* when none did.
C16_ExitCodes ==
    exitCode # -1 =>
        /\ exitCode = 2 <=> RefUsageError
        /\ RefRuntimeError => exitCode = 1
        /\ exitCode = 0 => ~RefRuntimeError

---------------------------------------------------------------------------
(* The single-file route against the answer of the contents call *)

\* the descriptor built from the address alone
RefBareDescriptor ==
    [path |-> parsed.path,
     downloadUrl |-> <<"https://raw.githubusercontent.com/">> \o parsed.owner
                     \o <<"/">> \o parsed.repo \o <<"/">> \o parsed.ref
                     \o <<"/">> \o parsed.path,
     size |-> 0,
     sha |-> <<>>]

\* C17: for a blob address with a path, the contents call is best effort:
\* when it fails, discovery still succeeds with the one descriptor built
\* from the address alone (size 0, empty hash) and onProgress is called
\* once, with 1; blob discovery fails only when the default-branch lookup
\* before it fails.
C17_BestEffortEnrichment ==
    /\ enrichment # "none" =>
          /\ pc = "discovered"
          /\ Len(files) = 1
          /\ progress = <<1>>
          /\ files[1].path = parsed.path
          /\ files[1].downloadUrl = RefBareDescriptor.downloadUrl
    /\ enrichment = "failed" => files = <<RefBareDescriptor>>
    /\ (parsed.type = "blob" /\ parsed.path \notin {NULL, <<>>}
            /\ pc = "discover_failed") =>
          /\ Len(calls) = 1
          /\ calls[1].api = "repo"
          /\ enrichment = "none"
          /\ files = <<>>

C17_Witness ==
    /\ pc = "discovered"
    /\ enrichment = "failed"
    /\ Len(calls) = 2
    /\ calls[1].api = "repo"
    /\ calls[2].api = "contents"
    /\ files = <<RefBareDescriptor>>
    /\ progress = <<1>>

---------------------------------------------------------------------------
(* The download loops against the order of their requests *)

\* the files whose download has been requested and not yet answered
RefInFlight ==
    {k \in 1..Len(files) :
        /\ \E c \in 1..Len(calls) :
              calls[c].api = "raw" /\ calls[c].url = files[k].downloadUrl
        /\ k > Len(outcomes)}

\* file k is accounted for: written to disk or appended to the archive with
\* the content downloaded for it, or recorded as failed
RefSettled(k) ==
    IF outcomes[k].res = "ok"
    THEN \/ \E w \in 1..Len(written) :
               written[w].content.from = files[k].downloadUrl
         \/ \E e \in 1..Len(archive) :
               archive[e].content.from = files[k].downloadUrl
    ELSE \E e \in 1..Len(errors) : errors[e].error = outcomes[k].res

\* C18: in both modes at most one file is in flight: the download of a file
\* is requested only when every file before it has been written (to disk or
\* to the archive) or recorded as failed, and the requests are made in list
\* order.
C18_OneFileInFlight ==
    /\ Cardinality(RefInFlight) <= 1
    /\ started - idx \in {0, 1}
    /\ RefInFlight # {} => RefInFlight = {idx + 1}
    /\ \A k \in 1..Len(outcomes) : RefSettled(k)
    /\ \A c \in 1..Len(calls) :
          calls[c].api = "raw" =>
              \E k \in 1..started :
                  /\ calls[c].url = files[k].downloadUrl
                  /\ \A h \in 1..(k - 1) : h <= Len(outcomes)

C18_Witness ==
    /\ pc = "zip_loop"
    /\ Len(files) = 3
    /\ started = 3
    /\ idx = 2
    /\ RefInFlight = {3}
    /\ Len(archive) = 1
    /\ Len(errors) = 1

\* C19: downloadToZip always settles: every 'close' or 'error' event of the
\* output stream finds the listener registered after finalize(), so no
\* event is emitted before the listeners exist, no stream error is left
\* unhandled, and the function never waits for an event that is past.
C19_ZipAlwaysSettles ==
    /\ pc # "crashed"
    /\ stream \in {"errored", "closed"} => listening
    /\ pc = "zip_wait" => stream = "open"

---------------------------------------------------------------------------
(* The destinations of the files of one discovery *)

\* C20: for a listing with pairwise distinct paths in which no file is a
\* directory of another entry, no two discovered files are written to the
\* same destination: the paths written by downloadFiles are pairwise
\* distinct, the exact output path is used only for a blob address with one
\* file and outputIsFilePath, and the entry names of the archive are
\* pairwise distinct.
C20_DistinctDestinations ==
    /\ \A v, w \in 1..Len(written) : v # w => written[v].path # written[w].path
    /\ \A d, e \in 1..Len(archive) : d # e => archive[d].name # archive[e].name
    /\ \A w \in 1..Len(written) :
          written[w].path = outputDir =>
              /\ parsed.type = "blob"
              /\ Len(files) = 1
              /\ outputIsFilePath
    /\ Len(written) + Len(archive) + Len(errors) = Len(outcomes)

C20_Witness ==
    /\ pc = "done"
    /\ mode = "dir"
    /\ parsed.type = "root"
    /\ Len(tree) = 3
    /\ Len(files) = 3
    /\ Len(written) = 3

====
